---- MODULE Spec2Model ----
(***************************************************************************)
(* Voice recorder: the transcription-capable VoicePage component           *)
(* (src/unnamed/part_000, lines 1-529) and the two Upload Relay handlers   *)
(* (src/src/app/api/upload/route.js).                                      *)
(*                                                                         *)
(* The page is modelled at the granularity of the browser's event loop:    *)
(* one action per event handler, promise continuation or timer callback,   *)
(* each including the React commit that follows it (state setters, the     *)
(* effect on [isRecording] and the cleanup of the effect on [audioURL]).   *)
(***************************************************************************)
EXTENDS Integers, Sequences, FiniteSets, TLC

\* ------------------------------------------------------------------ bounds
\* Start clicks explored (each asks for the microphone once).
MaxStarts == 2
\* Upload Relay calls issued by the page.
MaxCalls == 2
\* Seconds a recording may run past maxDuration before exploration stops.
MaxOverrun == 2
\* Seconds explored per recording where the elapsed time is not the subject.
MaxShortTicks == 1
\* Requests the relay receives.
MaxRequests == 2
\* Milliseconds the server clock advances.
MaxClock == 1

\* ------------------------------------------------------- program constants
maxDuration == 5 * 60
maxBytes == 25 * 1024 * 1024
maxSize == 25 * 1024 * 1024
storageMaxBytes == 10 * 1024 * 1024

\* ------------------------------------------------------------- media types
\* A media type is a sequence of characters, so that startsWith is computed.
AudioPrefix == <<"a", "u", "d", "i", "o", "/">>
AudioWebm == AudioPrefix \o <<"w">>
AudioMpeg == AudioPrefix \o <<"m">>
TextPlain == <<"t", "e", "x", "t", "/", "p">>
AudioNoSlash == <<"a", "u", "d", "i", "o">>
NoType == <<>>

\* startsWith that leaves the last character of the prefix out of the test.
startsWithLoose(s, p) == Len(s) >= Len(p) - 1 /\ SubSeq(s, 1, Len(p) - 1) = SubSeq(p, 1, Len(p) - 1)

\* String.prototype.startsWith
startsWith(s, p) == Len(s) >= Len(p) /\ SubSeq(s, 1, Len(p)) = p

\* The files a user can hand to the page: declared type and size in bytes.
UserFiles ==
  { [type |-> t, size |-> s] :
      t \in {AudioMpeg, TextPlain}, s \in {maxBytes, maxBytes + 1} }

\* ------------------------------------------------------------------- state
VARIABLES
  isRecording,        \* useState(false)
  isPaused,           \* useState(false)
  recorderSupported,  \* useState(true)
  audioURL,           \* useState(null): 0 is null, else an object URL id
  duration,           \* useState(0)
  transcription,      \* useState(null): 0 is null, else the call that set it
  isTranscribing,     \* useState(false)
  transcriptionError, \* useState(null): "none" is null
  mediaRecorderRef,   \* useRef(null): 0 is null, else a recorder id
  streamRef,          \* useRef(null): 0 is null, else a stream id
  timerRef,           \* useRef(null): 0 is null, else an interval id
  chunksRef,          \* useRef([]): the chunks pushed by ondataavailable
  blobRef,            \* useRef(null): <<>> is null, else <<blob>>
  recorders,          \* one entry per startRecording call: its stream and recorder
  timers,             \* the live interval timers
  objectURLs,         \* every URL.createObjectURL result and whether revoked
  calls,              \* every fetch("/api/upload") of the page, in flight or settled
  lastResponse,       \* the call that settled last and how
  \* --- the Upload Relay (route.js) and its collaborators
  requests,           \* every POST received: its handler, body, position, response
  written,            \* the files written under public/recordings
  forwarded,          \* the requests forwarded to PYTHON_API_URL
  now,                \* the server clock, in milliseconds
  \* --- the health probe (healthcheck.js)
  reqState,           \* req: "created", "pending" (connecting), "connected", "closed"
  idle,               \* milliseconds the socket has been idle
  timeoutEmitted,     \* the socket's 'timeout' event was emitted for this idle period
  statusCode,         \* res.statusCode: 0 before a response, -1 for an 'error' event
  exitCode            \* process exit code: -1 while the process runs

uiVars ==
  << isRecording, isPaused, recorderSupported, audioURL, duration,
     transcription, isTranscribing, transcriptionError, mediaRecorderRef,
     streamRef, timerRef, chunksRef, blobRef, recorders, timers, objectURLs,
     calls, lastResponse >>

relayVars == << requests, written, forwarded, now >>

probeVars == << reqState, idle, timeoutEmitted, statusCode, exitCode >>

vars == << uiVars, relayVars, probeVars >>

InitUI ==
  /\ isRecording = FALSE
  /\ isPaused = FALSE
  /\ recorderSupported = TRUE
  /\ audioURL = 0
  /\ duration = 0
  /\ transcription = 0
  /\ isTranscribing = FALSE
  /\ transcriptionError = "none"
  /\ mediaRecorderRef = 0
  /\ streamRef = 0
  /\ timerRef = 0
  /\ chunksRef = <<>>
  /\ blobRef = <<>>
  /\ recorders = <<>>
  /\ timers = {}
  /\ objectURLs = <<>>
  /\ calls = <<>>
  /\ lastResponse = [call |-> 0, outcome |-> "none"]

InitRelay ==
  /\ requests = <<>>
  /\ written = {}
  /\ forwarded = {}
  /\ now = 0

InitProbe ==
  /\ reqState = "created"
  /\ idle = 0
  /\ timeoutEmitted = FALSE
  /\ statusCode = 0
  /\ exitCode = -1

\* ----------------------------------------------------------------- helpers
\* setInterval returns an id no live timer has.
NewTimerId == CHOOSE n \in 1..(Cardinality(timers) + 1) : n \notin timers

\* URL.revokeObjectURL(u), guarded by `if (u)`.
revokeObjectURL(urls, u) ==
  IF u = 0 THEN urls ELSE [urls EXCEPT ![u].revoked = TRUE]

\* stream.getTracks().forEach(t => t.stop()), guarded by `if (streamRef.current)`.
stopTracks(recs, s) ==
  IF s = 0 THEN recs ELSE [recs EXCEPT ![s].tracks = "ended"]

\* clearInterval(timerRef.current)
clearInterval(ts, t) == ts \ {t}

\* mr.stop() when mr.state is recording or paused: the recorder turns inactive
\* and the browser queues its dataavailable and stop events.
stopRecorder(recs, mr) ==
  IF mr # 0 /\ recs[mr].state \in {"recording", "paused"}
  THEN [recs EXCEPT ![mr].state = "inactive", ![mr].stopQueued = TRUE]
  ELSE recs

\* stopRecording: the recorders after it (streamRef.current becomes null).
stopRecording(recs) == stopTracks(stopRecorder(recs, mediaRecorderRef), streamRef)


\* The cleanup of the effect on [audioURL] (it runs whenever audioURL changes):
\* the recorders after `if (streamRef.current) ...getTracks().forEach(stop)`.
cleanupTracks(recs, sref, old, new) ==
  IF old = new THEN recs ELSE stopTracks(recs, sref)

\* ... the timers after `if (timerRef.current) clearInterval(timerRef.current)`.
cleanupTimers(ts, old, new) ==
  IF old = new THEN ts ELSE clearInterval(ts, timerRef)

\* ... the object URLs after `if (audioURL) URL.revokeObjectURL(audioURL)`.
cleanupURL(urls, old, new) ==
  IF old = new THEN urls ELSE revokeObjectURL(urls, old)

\* The calls in flight when the page is cleared or a new recording starts are
\* marked: their responses belong to what the page showed before.
Supersede(cs) ==
  [c \in 1..Len(cs) |->
     IF cs[c].state = "inflight" THEN [cs[c] EXCEPT !.superseded = TRUE] ELSE cs[c]]

\* ------------------------------------------------------- recording actions
\* The Start button: startRecording up to its await of getUserMedia. The
\* closure keeps the audioURL of the render in which the button was clicked.
StartClick ==
  /\ ~(isRecording /\ ~isPaused)
  /\ Len(recorders) < MaxStarts
  /\ recorders' = Append(recorders,
       [state |-> "requested", tracks |-> "none",
        closureURL |-> audioURL, stopQueued |-> FALSE])
  /\ UNCHANGED << isRecording, isPaused, recorderSupported, audioURL, duration,
                  transcription, isTranscribing, transcriptionError,
                  mediaRecorderRef, streamRef, timerRef, chunksRef, blobRef,
                  timers, objectURLs, calls, lastResponse >>
  /\ UNCHANGED relayVars
  /\ UNCHANGED probeVars

\* getUserMedia resolves for start k: the rest of startRecording's try block,
\* then the effect on [isRecording].
GumResolve(k) ==
  /\ recorders[k].state = "requested"
  /\ streamRef' = k
  /\ mediaRecorderRef' = k
  /\ chunksRef' = <<>>
  /\ recorders' = [recorders EXCEPT ![k].state = "recording", ![k].tracks = "live"]
  /\ isRecording' = TRUE
  /\ isPaused' = FALSE
  /\ duration' = 0
  /\ timerRef' = NewTimerId
  /\ timers' = timers \cup {NewTimerId}
  /\ IF ~isRecording
     THEN transcription' = 0 /\ transcriptionError' = "none"
     ELSE UNCHANGED << transcription, transcriptionError >>
  /\ calls' = Supersede(calls)
  /\ UNCHANGED << recorderSupported, audioURL, isTranscribing, blobRef,
                  objectURLs, lastResponse >>
  /\ UNCHANGED relayVars
  /\ UNCHANGED probeVars

\* getUserMedia resolves for start k but the rest of the try block throws (no
\* MediaRecorder in this browser): streamRef.current is already assigned, then
\* the catch block.
RecorderFails(k) ==
  /\ recorders[k].state = "requested"
  /\ streamRef' = k
  /\ recorders' = [recorders EXCEPT ![k].state = "unsupported", ![k].tracks = "live"]
  /\ recorderSupported' = FALSE
  /\ UNCHANGED << isRecording, isPaused, audioURL, duration, transcription,
                  isTranscribing, transcriptionError, mediaRecorderRef,
                  timerRef, chunksRef, blobRef, timers, objectURLs,
                  calls, lastResponse >>
  /\ UNCHANGED relayVars
  /\ UNCHANGED probeVars

\* startRecording without its catch block: the rejection escapes.
GumRejectUncaught(k) ==
  /\ recorders[k].state = "requested"
  /\ recorders' = [recorders EXCEPT ![k].state = "denied"]
  /\ UNCHANGED << isRecording, isPaused, recorderSupported, audioURL, duration,
                  transcription, isTranscribing, transcriptionError,
                  mediaRecorderRef, streamRef, timerRef, chunksRef, blobRef,
                  timers, objectURLs, calls, lastResponse >>
  /\ UNCHANGED relayVars
  /\ UNCHANGED probeVars

\* getUserMedia rejects for start k: the catch block.
GumReject(k) ==
  /\ recorders[k].state = "requested"
  /\ recorders' = [recorders EXCEPT ![k].state = "denied"]
  /\ recorderSupported' = FALSE
  /\ UNCHANGED << isRecording, isPaused, audioURL, duration, transcription,
                  isTranscribing, transcriptionError, mediaRecorderRef,
                  streamRef, timerRef, chunksRef, blobRef, timers, objectURLs,
                  calls, lastResponse >>
  /\ UNCHANGED relayVars
  /\ UNCHANGED probeVars

\* pauseRecording without the test of mr.state.
pauseRecordingAnyState ==
  IF mediaRecorderRef # 0
  THEN /\ recorders' = [recorders EXCEPT ![mediaRecorderRef].state = "paused"]
       /\ isPaused' = TRUE
       /\ timers' = clearInterval(timers, timerRef)
       /\ UNCHANGED timerRef
  ELSE UNCHANGED << recorders, isPaused, timers, timerRef >>

pauseRecording ==
  IF mediaRecorderRef # 0 /\ recorders[mediaRecorderRef].state = "recording"
  THEN /\ recorders' = [recorders EXCEPT ![mediaRecorderRef].state = "paused"]
       /\ isPaused' = TRUE
       /\ timers' = clearInterval(timers, timerRef)
       /\ UNCHANGED timerRef
  ELSE UNCHANGED << recorders, isPaused, timers, timerRef >>

\* The Pause button.
PauseClick ==
  /\ isRecording /\ ~isPaused
  /\ pauseRecording
  /\ UNCHANGED << isRecording, recorderSupported, audioURL, duration,
                  transcription, isTranscribing, transcriptionError,
                  mediaRecorderRef, streamRef, chunksRef, blobRef, objectURLs,
                  calls, lastResponse >>
  /\ UNCHANGED relayVars
  /\ UNCHANGED probeVars

resumeRecording ==
  IF mediaRecorderRef # 0 /\ recorders[mediaRecorderRef].state = "paused"
  THEN /\ recorders' = [recorders EXCEPT ![mediaRecorderRef].state = "recording"]
       /\ isPaused' = FALSE
       /\ timerRef' = NewTimerId
       /\ timers' = timers \cup {NewTimerId}
  ELSE UNCHANGED << recorders, isPaused, timers, timerRef >>

\* The Resume button.
ResumeClick ==
  /\ isRecording /\ isPaused
  /\ resumeRecording
  /\ UNCHANGED << isRecording, recorderSupported, audioURL, duration,
                  transcription, isTranscribing, transcriptionError,
                  mediaRecorderRef, streamRef, chunksRef, blobRef, objectURLs,
                  calls, lastResponse >>
  /\ UNCHANGED relayVars
  /\ UNCHANGED probeVars

\* The Stop button (never disabled).
StopClick ==
  /\ recorders' = stopRecording(recorders)
  /\ streamRef' = 0
  /\ UNCHANGED << isRecording, isPaused, recorderSupported, audioURL, duration,
                  transcription, isTranscribing, transcriptionError,
                  mediaRecorderRef, timerRef, chunksRef, blobRef, timers,
                  objectURLs, calls, lastResponse >>
  /\ UNCHANGED relayVars
  /\ UNCHANGED probeVars

\* One firing of a live interval timer: the setDuration updater.
TickUpTo(t, limit) ==
  /\ t \in timers
  /\ duration < limit
  /\ duration' = duration + 1
  /\ IF duration + 1 >= maxDuration
     THEN recorders' = stopRecording(recorders) /\ streamRef' = 0
     ELSE UNCHANGED << recorders, streamRef >>
  /\ UNCHANGED << isRecording, isPaused, recorderSupported, audioURL,
                  transcription, isTranscribing, transcriptionError,
                  mediaRecorderRef, timerRef, chunksRef, blobRef, timers,
                  objectURLs, calls, lastResponse >>
  /\ UNCHANGED relayVars
  /\ UNCHANGED probeVars

Tick(t) == TickUpTo(t, maxDuration + MaxOverrun)

ShortTick(t) == TickUpTo(t, MaxShortTicks)

\* The browser ends a recorder whose stream has no live track left.
TracksEnded(k) ==
  /\ recorders[k].state \in {"recording", "paused"}
  /\ recorders[k].tracks = "ended"
  /\ recorders' = [recorders EXCEPT ![k].state = "inactive", ![k].stopQueued = TRUE]
  /\ UNCHANGED << isRecording, isPaused, recorderSupported, audioURL, duration,
                  transcription, isTranscribing, transcriptionError,
                  mediaRecorderRef, streamRef, timerRef, chunksRef, blobRef,
                  timers, objectURLs, calls, lastResponse >>
  /\ UNCHANGED relayVars
  /\ UNCHANGED probeVars

\* The queued dataavailable and stop events of recorder k: mr.ondataavailable,
\* mr.onstop, then the commit (audioURL changes, so the effect cleanup runs).
OnStop(k) ==
  LET chunks == Append(chunksRef, [rec |-> k])
      url == Len(objectURLs) + 1
      created == Append(objectURLs, [of |-> "recording", revoked |-> FALSE])
      revoked == revokeObjectURL(created, recorders[k].closureURL)
      delivered == [recorders EXCEPT ![k].stopQueued = FALSE]
  IN /\ recorders[k].stopQueued
     /\ chunksRef' = chunks
     /\ blobRef' = << [parts |-> chunks, type |-> AudioWebm] >>
     /\ audioURL' = url
     /\ isRecording' = FALSE
     /\ isPaused' = FALSE
     /\ timers' = cleanupTimers(clearInterval(timers, timerRef), audioURL, url)
     /\ recorders' = cleanupTracks(delivered, streamRef, audioURL, url)
     /\ objectURLs' = cleanupURL(revoked, audioURL, url)
     /\ UNCHANGED << recorderSupported, duration, transcription, isTranscribing,
                     transcriptionError, mediaRecorderRef, streamRef, timerRef,
                     calls, lastResponse >>
  /\ UNCHANGED relayVars
  /\ UNCHANGED probeVars

\* --------------------------------------------------- upload and transcribe
\* handleFileUpload up to its await of fetch, then the commit (audioURL
\* changes, so the effect cleanup runs).
handleFileUpload(file) ==
  IF file.size > maxBytes
  THEN UNCHANGED uiVars
  ELSE LET url == Len(objectURLs) + 1
           created == Append(objectURLs, [of |-> "file", revoked |-> FALSE])
       IN /\ Len(calls) < MaxCalls
          /\ isTranscribing' = TRUE
          /\ transcriptionError' = "none"
          /\ transcription' = 0
          /\ objectURLs' = cleanupURL(revokeObjectURL(created, audioURL), audioURL, url)
          /\ audioURL' = url
          /\ duration' = 0
          /\ recorders' = cleanupTracks(recorders, streamRef, audioURL, url)
          /\ timers' = cleanupTimers(timers, audioURL, url)
          /\ calls' = Append(calls, [state |-> "inflight", from |-> "file", file |-> file,
                                   superseded |-> FALSE])
          /\ UNCHANGED << isRecording, isPaused, recorderSupported,
                          mediaRecorderRef, streamRef, timerRef, chunksRef, blobRef,
                          lastResponse >>

\* A file dropped on the drop zone.
handleDrop(file) ==
  IF startsWith(file.type, AudioPrefix)
  THEN handleFileUpload(file)
  ELSE /\ transcriptionError' = "drop"
       /\ UNCHANGED << isRecording, isPaused, recorderSupported, audioURL,
                       duration, transcription, isTranscribing, mediaRecorderRef,
                       streamRef, timerRef, chunksRef, blobRef, recorders, timers,
                       objectURLs, calls, lastResponse >>

FileDrop(file) ==
  /\ handleDrop(file)
  /\ UNCHANGED relayVars
  /\ UNCHANGED probeVars

\* A file chosen in the file input (disabled while isTranscribing).
FilePick(file) ==
  /\ ~isTranscribing
  /\ handleFileUpload(file)
  /\ UNCHANGED relayVars
  /\ UNCHANGED probeVars

\* uploadRecording up to its await of fetch.
uploadRecording ==
  IF blobRef = <<>>
  THEN UNCHANGED uiVars
  ELSE /\ Len(calls) < MaxCalls
       /\ isTranscribing' = TRUE
       /\ transcriptionError' = "none"
       /\ transcription' = 0
       /\ calls' = Append(calls,
            [state |-> "inflight", from |-> "blob",
             file |-> [type |-> blobRef[1].type, size |-> 1],
             superseded |-> FALSE])
       /\ UNCHANGED << isRecording, isPaused, recorderSupported, audioURL,
                       duration, mediaRecorderRef, streamRef, timerRef, chunksRef,
                       blobRef, recorders, timers, objectURLs, lastResponse >>

\* The Transcribe button.
TranscribeClick ==
  /\ blobRef # <<>> /\ ~isTranscribing
  /\ uploadRecording
  /\ UNCHANGED relayVars
  /\ UNCHANGED probeVars

\* A call whose promise has settled and whose continuation has run.
Settled ==
  [state |-> "settled", from |-> "none", file |-> [type |-> NoType, size |-> 0],
   superseded |-> FALSE]

\* What a relay call can end with: a body with success true, a body without,
\* or a rejected fetch / undecodable body.
Outcomes == {"success", "failure", "error"}

\* The continuation without its finally block: isTranscribing is reset at the
\* end of the try block only.
CompleteNoFinally(c, outcome) ==
  /\ c \in 1..Len(calls)
  /\ calls[c].state = "inflight"
  /\ calls' = [calls EXCEPT ![c] = Settled]
  /\ lastResponse' = [call |-> c, outcome |-> outcome]
  /\ IF outcome = "success"
     THEN transcription' = c /\ UNCHANGED transcriptionError
     ELSE /\ transcriptionError' = (IF outcome = "failure" THEN "relay" ELSE "connect")
          /\ UNCHANGED transcription
  /\ isTranscribing' = (outcome = "error" /\ isTranscribing)
  /\ UNCHANGED << isRecording, isPaused, recorderSupported, audioURL, duration,
                  mediaRecorderRef, streamRef, timerRef, chunksRef, blobRef,
                  recorders, timers, objectURLs >>
  /\ UNCHANGED relayVars
  /\ UNCHANGED probeVars

\* The continuation after `await fetch` / `await res.json()` of call c, in
\* handleFileUpload and in uploadRecording: try, catch and finally.
Complete(c, outcome) ==
  /\ c \in 1..Len(calls)
  /\ calls[c].state = "inflight"
  /\ calls' = [calls EXCEPT ![c] = Settled]
  /\ lastResponse' = [call |-> c, outcome |-> outcome]
  /\ IF outcome = "success"
     THEN transcription' = c /\ UNCHANGED transcriptionError
     ELSE /\ transcriptionError' = (IF outcome = "failure" THEN "relay" ELSE "connect")
          /\ UNCHANGED transcription
  /\ isTranscribing' = FALSE
  /\ UNCHANGED << isRecording, isPaused, recorderSupported, audioURL, duration,
                  mediaRecorderRef, streamRef, timerRef, chunksRef, blobRef,
                  recorders, timers, objectURLs >>
  /\ UNCHANGED relayVars
  /\ UNCHANGED probeVars

\* clearAll, then the commit (the effect cleanup runs when audioURL changes).
clearAll ==
  /\ objectURLs' = cleanupURL(revokeObjectURL(objectURLs, audioURL), audioURL, 0)
  /\ audioURL' = 0
  /\ transcription' = 0
  /\ transcriptionError' = "none"
  /\ duration' = 0
  /\ blobRef' = <<>>
  /\ recorders' = cleanupTracks(recorders, streamRef, audioURL, 0)
  /\ timers' = cleanupTimers(timers, audioURL, 0)
  /\ calls' = Supersede(calls)
  /\ UNCHANGED << isRecording, isPaused, recorderSupported, isTranscribing,
                  mediaRecorderRef, streamRef, timerRef, chunksRef, lastResponse >>

\* The Clear button (rendered only while audioURL is set).
ClearClick ==
  /\ audioURL # 0
  /\ clearAll
  /\ UNCHANGED relayVars
  /\ UNCHANGED probeVars

\* The Dismiss button of the error panel.
DismissError ==
  /\ transcriptionError # "none"
  /\ transcriptionError' = "none"
  /\ UNCHANGED << isRecording, isPaused, recorderSupported, audioURL, duration,
                  transcription, isTranscribing, mediaRecorderRef, streamRef,
                  timerRef, chunksRef, blobRef, recorders, timers, objectURLs,
                  calls, lastResponse >>
  /\ UNCHANGED relayVars
  /\ UNCHANGED probeVars

\* ---------------------------------------------------------- Upload Relay
\* What the "file" field of a request body can be: the body is not a form at
\* all, the field is absent, the field is a text value, or it is a file with a
\* declared type and a size.
Body(kind, type, size, ext) == [kind |-> kind, type |-> type, size |-> size, ext |-> ext]

\* Extensions of uploaded file names (the page names a recording *.mp3 and a
\* selected file by its own extension).
DotWebm == <<".", "w", "e", "b", "m">>
DotMp3 == <<".", "m", "p", "3">>
DotWav == <<".", "w", "a", "v">>
DotTxt == <<".", "t", "x", "t">>
NoExt == <<>>

RelayBodies ==
  { Body("malformed", NoType, 0, NoExt), Body("absent", NoType, 0, NoExt),
    Body("text", NoType, 0, NoExt),
    Body("file", AudioWebm, 1, DotMp3), Body("file", AudioWebm, maxSize, DotWebm),
    Body("file", AudioWebm, maxSize + 1, DotWav),
    Body("file", TextPlain, 1, DotTxt), Body("file", AudioNoSlash, 1, DotMp3) }

Handlers == {"storage", "transcription"}

\* The JSON bodies the transcription service can send: undecodable, or an object
\* with or without the fields text, success and detail ("absent": no such
\* field).
NotJson == [decodes |-> FALSE, text |-> "absent", success |-> "absent", detail |-> "absent"]

Json(text, success, detail) ==
  [decodes |-> TRUE, text |-> text, success |-> success, detail |-> detail]

\* A detail field that is not a string but a list of error objects (the
\* validation errors of the service).
DetailList == "<list of error objects>"

UpstreamJson ==
  { Json("hello", "absent", "absent"), Json("hello", "false", "absent"),
    Json("absent", "absent", "absent"), Json("absent", "absent", ""),
    Json("absent", "absent", "No speech found"),
    Json("absent", "absent", DetailList) }

\* The settled result of `fetch(PYTHON_API_URL, ...)`: the promise rejects, or
\* it resolves with a response that has a status and a body.
Rejected == [kind |-> "rejected", status |-> 0, json |-> NotJson]

FetchResults ==
  {Rejected} \cup
  { [kind |-> "response", status |-> st, json |-> j] :
      st \in {200, 201, 404, 500}, j \in UpstreamJson \cup {NotJson} }

\* response.ok taken as "not a server error".
okLoose(status) == status < 500

\* response.ok: the status is in the range 200-299.
ok(status) == status \in 200..299

\* A request arrives: the handler runs up to `await request.formData()`.
Receive(h, body) ==
  /\ Len(requests) < MaxRequests
  /\ requests' = Append(requests,
       [handler |-> h, body |-> body, pc |-> "formData", status |-> 0,
        success |-> "absent", error |-> "absent", text |-> "absent",
        fileName |-> <<>>])
  /\ UNCHANGED << written, forwarded, now >>
  /\ UNCHANGED uiVars
  /\ UNCHANGED probeVars

\* NextResponse.json(envelope, { status })
respond(r, status, success, error) ==
  [requests EXCEPT ![r].pc = "done", ![r].status = status,
                   ![r].success = success, ![r].error = error]

\* Date.prototype.toISOString for a time ms milliseconds after the server
\* started: the time part, whose last digit of the milliseconds is ms.
toISOString(ms) ==
  <<"T", "0", "0", ":", "0", "0", ":", "0", "0", ".", "0", "0", ToString(ms), "Z">>

\* String.prototype.replace(/[:.]/g, "-")
replace(str) ==
  [i \in 1..Len(str) |-> IF str[i] \in {":", "."} THEN "-" ELSE str[i]]

\* `${now.toISOString().replace(/[:.]/g, "-")}${ext}`
stampedName(ms, ext) == replace(toISOString(ms)) \o ext

\* The storage handler (first POST) after `await request.formData()`, up to
\* `await file.arrayBuffer()`.
StorageParsed(r) ==
  LET body == requests[r].body IN
  /\ requests[r].handler = "storage"
  /\ requests[r].pc = "formData"
  /\ requests' =
       IF body.kind = "malformed" THEN respond(r, 500, "absent", "Upload failed")
       ELSE IF body.kind = "absent" THEN respond(r, 400, "absent", "No file uploaded")
       ELSE IF body.kind = "text" THEN respond(r, 500, "absent", "Upload failed")
       ELSE IF ~startsWith(body.type, AudioPrefix)
         THEN respond(r, 400, "absent", "Invalid file type")
       ELSE [requests EXCEPT ![r].pc = "arrayBuffer",
                             ![r].fileName = stampedName(now, DotWebm)]
  /\ UNCHANGED << written, forwarded, now >>
  /\ UNCHANGED uiVars
  /\ UNCHANGED probeVars

\* The storage handler's write outside any try block: a failed write leaves the
\* handler with a raised exception and no response.
StorageBufferedUncaught(r, writes) ==
  /\ requests[r].handler = "storage"
  /\ requests[r].pc = "arrayBuffer"
  /\ IF writes
     THEN /\ written' = written \cup {[path |-> requests[r].fileName, by |-> r]}
          /\ requests' = respond(r, 200, "true", "absent")
     ELSE /\ requests' = [requests EXCEPT ![r].pc = "threw"]
          /\ UNCHANGED written
  /\ UNCHANGED << forwarded, now >>
  /\ UNCHANGED uiVars
  /\ UNCHANGED probeVars

\* The storage handler after `await file.arrayBuffer()`: writeFileSync, which
\* succeeds or throws, and the response (only the success response carries
\* fileName).
StorageBuffered(r, writes) ==
  /\ requests[r].handler = "storage"
  /\ requests[r].pc = "arrayBuffer"
  /\ IF writes
     THEN /\ written' = written \cup {[path |-> requests[r].fileName, by |-> r]}
          /\ requests' = respond(r, 200, "true", "absent")
     ELSE /\ requests' = [respond(r, 500, "absent", "Upload failed")
                            EXCEPT ![r].fileName = <<>>]
          /\ UNCHANGED written
  /\ UNCHANGED << forwarded, now >>
  /\ UNCHANGED uiVars
  /\ UNCHANGED probeVars

\* The transcription handler (second POST) after `await request.formData()`, up
\* to `await fetch(PYTHON_API_URL, ...)`.
TranscribeParsed(r) ==
  LET body == requests[r].body
      valid == /\ body.kind = "file"
               /\ startsWith(body.type, AudioPrefix)
               /\ ~(body.size > maxSize)
  IN
  /\ requests[r].handler = "transcription"
  /\ requests[r].pc = "formData"
  /\ requests' =
       IF body.kind = "malformed" THEN respond(r, 500, "false", "thrown")
       ELSE IF body.kind = "absent" THEN respond(r, 400, "false", "No file uploaded")
       ELSE IF body.kind = "text" THEN respond(r, 500, "false", "thrown")
       ELSE IF ~startsWith(body.type, AudioPrefix)
         THEN respond(r, 400, "false", "Invalid file type. Only audio files are allowed.")
       ELSE IF body.size > maxSize
         THEN respond(r, 400, "false", "File too large. Maximum size is 25MB.")
       ELSE [requests EXCEPT ![r].pc = "fetch"]
  /\ forwarded' = IF valid THEN forwarded \cup {r} ELSE forwarded
  /\ UNCHANGED << written, now >>
  /\ UNCHANGED uiVars
  /\ UNCHANGED probeVars

\* The message of `new Error(errorData.detail || \`Python API error:
\* ${response.status}\`)`, where errorData is the decoded body or {} (the .catch
\* of response.json()): the Error constructor converts its argument to a string.
upstreamMessage(res) ==
  IF res.json.decodes /\ res.json.detail \notin {"absent", ""}
  THEN IF res.json.detail = DetailList
       THEN "[object Object]"
       ELSE res.json.detail
  ELSE "Python API error: " \o ToString(res.status)

\* { success: true, ...transcriptionResult, message }: a success field of the
\* body replaces the literal one, as the spread comes after it.
successEnvelope(r, json) ==
  [requests EXCEPT ![r].pc = "done", ![r].status = 200,
                   ![r].success = IF json.success = "absent" THEN "true" ELSE json.success,
                   ![r].text = json.text]

\* The transcription handler after `await fetch(...)`: the rest of the try
\* block, or the catch block.
TranscribeFetched(r, result) ==
  /\ requests[r].handler = "transcription"
  /\ requests[r].pc = "fetch"
  /\ requests' =
       IF result.kind = "rejected" THEN respond(r, 500, "false", "fetch failed")
       ELSE IF ~ok(result.status) THEN respond(r, 500, "false", upstreamMessage(result))
       ELSE IF ~result.json.decodes THEN respond(r, 500, "false", "thrown")
       ELSE successEnvelope(r, result.json)
  /\ UNCHANGED << written, forwarded, now >>
  /\ UNCHANGED uiVars
  /\ UNCHANGED probeVars

\* A millisecond passes on the server. Only `new Date()` of the storage
\* handler reads the clock, so the passing of time is followed while a request
\* of that handler has yet to read it.
ClockTick ==
  /\ now < MaxClock
  /\ \E r \in 1..Len(requests) :
       requests[r].handler = "storage" /\ requests[r].pc = "formData"
  /\ now' = now + 1
  /\ UNCHANGED << requests, written, forwarded >>
  /\ UNCHANGED uiVars
  /\ UNCHANGED probeVars

\* ------------------------------------------------------------ health probe
\* options.timeout, in milliseconds
timeout == 2000

\* The statuses the local server can answer with.
Statuses == {200, 204, 301, 404, 500}

\* The response callback with a test for any 2xx status.
exitCodeForAny2xx(status) == IF status \in 200..299 THEN 0 ELSE 1

\* The response callback: `res.statusCode === 200` chooses the exit code.
exitCodeFor(status) == IF status = 200 THEN 0 ELSE 1

\* req.end(): the request is sent, the socket starts connecting.
ReqEnd ==
  /\ reqState = "created"
  /\ reqState' = "pending"
  /\ UNCHANGED << idle, timeoutEmitted, statusCode, exitCode >>
  /\ UNCHANGED << uiVars, relayVars >>

\* The server accepts the connection: activity on the socket restarts its
\* idle timer.
Connected ==
  /\ reqState = "pending"
  /\ reqState' = "connected"
  /\ idle' = 0
  /\ timeoutEmitted' = FALSE
  /\ UNCHANGED << statusCode, exitCode >>
  /\ UNCHANGED << uiVars, relayVars >>

\* A millisecond passes without activity on the socket.
IdleTick ==
  /\ reqState \in {"pending", "connected"}
  /\ idle < timeout
  /\ idle' = idle + 1
  /\ UNCHANGED << reqState, timeoutEmitted, statusCode, exitCode >>
  /\ UNCHANGED << uiVars, relayVars >>

\* The socket has been idle for options.timeout: 'timeout' is emitted on req.
\* No listener is registered for it, so nothing runs.
TimeoutEvent ==
  /\ reqState \in {"pending", "connected"}
  /\ idle = timeout
  /\ ~timeoutEmitted
  /\ timeoutEmitted' = TRUE
  /\ UNCHANGED << reqState, idle, statusCode, exitCode >>
  /\ UNCHANGED << uiVars, relayVars >>

\* The response arrives: the callback of http.request.
Response(status) ==
  /\ reqState = "connected"
  /\ statusCode' = status
  /\ exitCode' = exitCodeFor(status)
  /\ reqState' = "closed"
  /\ UNCHANGED << idle, timeoutEmitted >>
  /\ UNCHANGED << uiVars, relayVars >>

\* A transport error (connection refused, reset, closed without a response):
\* the 'error' listener.
ReqError ==
  /\ reqState \in {"pending", "connected"}
  /\ statusCode' = -1
  /\ exitCode' = 1
  /\ reqState' = "closed"
  /\ UNCHANGED << idle, timeoutEmitted >>
  /\ UNCHANGED << uiVars, relayVars >>

\* ---------------------------------------------------------- specifications
Init == InitUI /\ InitRelay /\ InitProbe

Recorders == 1..Len(recorders)

Requests == 1..Len(requests)

\* Every event of the recording session, with the timer running to the ceiling.
NextRec ==
  \/ StartClick
  \/ \E k \in Recorders : GumResolve(k)
  \/ \E k \in Recorders : GumReject(k)
  \/ \E k \in Recorders : RecorderFails(k)
  \/ PauseClick
  \/ ResumeClick
  \/ StopClick
  \/ \E t \in timers : Tick(t)
  \/ \E k \in Recorders : TracksEnded(k)
  \/ \E k \in Recorders : OnStop(k)
  \/ ClearClick

SpecRec == Init /\ [][NextRec]_vars

\* The queued stop event of a stopped recorder is delivered, and the browser
\* ends a recorder whose tracks have ended.
SpecRecFair ==
  /\ SpecRec
  /\ \A k \in 1..MaxStarts :
       /\ WF_vars(k \in Recorders /\ OnStop(k))
       /\ WF_vars(k \in Recorders /\ TracksEnded(k))

\* Every event of the recording session, in the first seconds of each
\* recording.
NextSession ==
  \/ StartClick
  \/ \E k \in Recorders : GumResolve(k)
  \/ \E k \in Recorders : GumReject(k)
  \/ \E k \in Recorders : RecorderFails(k)
  \/ PauseClick
  \/ ResumeClick
  \/ StopClick
  \/ \E t \in timers : ShortTick(t)
  \/ \E k \in Recorders : TracksEnded(k)
  \/ \E k \in Recorders : OnStop(k)
  \/ ClearClick

SpecSession == Init /\ [][NextSession]_vars

\* Every event of the page, the first seconds of each recording.
Next ==
  \/ StartClick
  \/ \E k \in Recorders : GumResolve(k)
  \/ \E k \in Recorders : GumReject(k)
  \/ \E k \in Recorders : RecorderFails(k)
  \/ PauseClick
  \/ ResumeClick
  \/ StopClick
  \/ \E t \in timers : ShortTick(t)
  \/ \E k \in Recorders : TracksEnded(k)
  \/ \E k \in Recorders : OnStop(k)
  \/ \E f \in UserFiles : FileDrop(f)
  \/ \E f \in UserFiles : FilePick(f)
  \/ TranscribeClick
  \/ \E c \in 1..Len(calls), o \in Outcomes : Complete(c, o)
  \/ ClearClick
  \/ DismissError

Spec == Init /\ [][Next]_vars

\* The events that issue and settle relay calls, around the page's first
\* recording (the one whose blob the Transcribe button sends).
NextCalls ==
  \/ (recorders = <<>> /\ StartClick)
  \/ \E k \in Recorders : GumResolve(k)
  \/ StopClick
  \/ \E k \in Recorders : OnStop(k)
  \/ \E f \in UserFiles : FileDrop(f)
  \/ \E f \in UserFiles : FilePick(f)
  \/ TranscribeClick
  \/ \E c \in 1..Len(calls), o \in Outcomes : Complete(c, o)
  \/ ClearClick
  \/ DismissError

SpecCalls == Init /\ [][NextCalls]_vars

\* The continuation of a settled fetch is a queued job of the event loop: it
\* runs, so every call in flight is eventually completed.
SpecCallsFair ==
  /\ SpecCalls
  /\ \A c \in 1..MaxCalls :
       WF_vars(\E o \in Outcomes : Complete(c, o))

\* The two relay handlers serving requests.
NextRelay ==
  \/ \E h \in Handlers, b \in RelayBodies : Receive(h, b)
  \/ \E r \in Requests : StorageParsed(r)
  \/ \E r \in Requests, w \in BOOLEAN : StorageBuffered(r, w)
  \/ \E r \in Requests : TranscribeParsed(r)
  \/ \E r \in Requests, f \in FetchResults : TranscribeFetched(r, f)
  \/ ClockTick

SpecRelay == Init /\ [][NextRelay]_vars

\* The health probe against a server that may refuse, accept, answer or stay
\* silent.
NextProbe ==
  \/ ReqEnd
  \/ Connected
  \/ IdleTick
  \/ TimeoutEvent
  \/ \E st \in Statuses : Response(st)
  \/ ReqError

SpecProbe == Init /\ [][NextProbe]_vars

\* The probe's own steps run, time passes, and a connection attempt ends
\* (accepted, or failed by the operating system); a server that has accepted
\* is not bound to answer.
SpecProbeFair ==
  /\ SpecProbe
  /\ WF_vars(ReqEnd)
  /\ WF_vars(IdleTick)
  /\ WF_vars(TimeoutEvent)
  /\ WF_vars(reqState = "pending" /\ (Connected \/ ReqError))

\* ------------------------------------------------------------------ claims
\* The relay calls of the page that have not settled.
InFlight == { c \in 1..Len(calls) : calls[c].state = "inflight" }

\* The microphone streams acquired and not released.
LiveStreams == { k \in Recorders : recorders[k].tracks = "live" }

\* A declared media type that starts with "audio/".
DeclaresAudio(t) == Len(t) >= 6 /\ \A i \in 1..6 : t[i] = AudioPrefix[i]

\* C1: at most one Upload Relay call of the page is outstanding at any time,
\* whatever entry point issues calls (Transcribe, file picker, drag-and-drop).
C1_OneCallOutstanding == Cardinality(InFlight) <= 1

\* C2: in every reachable state of the recording session the elapsed seconds
\* never exceed maxDuration.
C2_DurationWithinMax == duration <= maxDuration

\* C3: the tick that raises the elapsed seconds to maxDuration stops the
\* current recorder and releases the stream, no later tick increments the
\* elapsed seconds, and the stop callback leaves the session stopped with a
\* blob and a playback URL at exactly maxDuration.
C3_AutoStopAtMax ==
  [][ /\ (duration = maxDuration - 1 /\ duration' = maxDuration)
          => /\ streamRef' = 0
             /\ mediaRecorderRef # 0 => recorders'[mediaRecorderRef].state = "inactive"
      /\ duration >= maxDuration => duration' <= duration
      /\ (duration >= maxDuration /\ isRecording /\ ~isRecording')
          => /\ duration' = maxDuration
             /\ ~isPaused'
             /\ blobRef' # <<>>
             /\ audioURL' # 0 ]_vars

\* C5: while a session is paused, and through its resume, the elapsed seconds
\* keep the value they had at the pause; the artifact produced when a recording
\* stops is the single chunk of that recording.
C5_PauseKeepsElapsed ==
  [][ /\ (isRecording /\ isPaused /\ isRecording' /\ mediaRecorderRef' = mediaRecorderRef)
          => duration' = duration
      /\ (isRecording /\ ~isRecording')
          => /\ blobRef' # <<>>
             /\ blobRef'[1].parts = << [rec |-> mediaRecorderRef] >> ]_vars

\* C6: at most one acquired microphone stream is un-released in any reachable
\* state, and after stop has run none is.
C6_StreamsReleased ==
  /\ [](Cardinality(LiveStreams) <= 1)
  /\ [][StopClick => LiveStreams' = {}]_vars

\* C7: after clear the session is idle: not recording, not paused, elapsed
\* seconds 0, no playback URL, no blob, no Transcription Result, no error
\* message, and the playback URL held before is revoked.
C7_ClearLeavesIdle ==
  [][ ClearClick
        => /\ ~isRecording'
           /\ ~isPaused'
           /\ duration' = 0
           /\ audioURL' = 0
           /\ blobRef' = <<>>
           /\ transcription' = 0
           /\ transcriptionError' = "none"
           /\ objectURLs'[audioURL].revoked ]_vars

\* C8: the Transcription Result is empty right after a new recording begins and
\* right after an upload/transcribe call is issued, and it becomes non-empty
\* only through a relay response with success true.
C8_TranscriptionCleared ==
  [][ /\ mediaRecorderRef' # mediaRecorderRef => transcription' = 0
      /\ Len(calls') > Len(calls) => transcription' = 0
      /\ (transcription' # 0 /\ transcription' # transcription)
          => lastResponse' = [call |-> transcription', outcome |-> "success"] ]_vars

C9_NonAudioRejected ==
  \A r \in Requests :
    (requests[r].body.kind = "file" /\ ~DeclaresAudio(requests[r].body.type))
      => /\ requests[r].pc \in {"formData", "done"}
         /\ requests[r].pc = "done" => requests[r].status \in 400..499
         /\ r \notin forwarded
         /\ \A w \in written : w.by # r

\* C9 witness: both handlers have answered a request whose file is not audio.
C9_Witness ==
  \E r1, r2 \in Requests :
    /\ requests[r1].handler = "storage"
    /\ requests[r2].handler = "transcription"
    /\ \A r \in {r1, r2} :
         /\ requests[r].body.kind = "file"
         /\ ~DeclaresAudio(requests[r].body.type)
         /\ requests[r].pc = "done"

\* The size ceiling of each handler: maxSize in the transcription handler, the
\* 10 MB of the storage configuration in the storage handler.
ceiling(h) == IF h = "transcription" THEN maxSize ELSE storageMaxBytes

\* C10: a request whose file is larger than the handler's ceiling is answered
\* with a client error by either handler, and nothing is written or forwarded
\* for it.
C10_OversizeRejected ==
  \A r \in Requests :
    (requests[r].body.kind = "file" /\ requests[r].body.size > ceiling(requests[r].handler))
      => /\ requests[r].pc = "done" => requests[r].status \in 400..499
         /\ r \notin forwarded
         /\ \A w \in written : w.by # r

\* A status of the 2xx class.
Is2xx(status) == status >= 200 /\ status < 300

\* C11: when the transcription service answers an accepted request with a 2xx
\* response whose JSON body has a text field t, whatever else the body
\* carries, the relay's envelope has success true and text t.
C11_SuccessEnvelope ==
  [][ \A r \in Requests :
        (requests[r].pc = "fetch" /\ requests'[r].pc # "fetch")
          => \A f \in FetchResults :
               ( /\ f.kind = "response" /\ Is2xx(f.status)
                 /\ f.json.decodes /\ f.json.text # "absent"
                 /\ TranscribeFetched(r, f) )
                 => /\ requests'[r].success = "true"
                    /\ requests'[r].text = f.json.text ]_vars

\* C12: when the transcription service answers an accepted request with a
\* non-2xx status, with or without a decodable JSON body, the handler returns
\* a response with success false and a 5xx status (it does not throw).
C12_UpstreamFailure ==
  [][ \A r \in Requests :
        (requests[r].pc = "fetch" /\ requests'[r].pc # "fetch")
          => /\ requests'[r].pc = "done"
             /\ \/ /\ requests'[r].success = "false"
                   /\ requests'[r].status \in 500..599
                   /\ requests'[r].error # "absent"
                \/ \A f \in FetchResults :
                     (f.kind = "response" /\ ~Is2xx(f.status))
                       => ~TranscribeFetched(r, f) ]_vars

\* C12 witness: the handler has answered one request the service met with 404
\* and no usable detail, and one it met with a detail message.
C12_Witness ==
  \E r1, r2 \in Requests :
    /\ requests[r1].pc = "done" /\ requests[r1].error = "Python API error: 404"
    /\ requests[r2].pc = "done" /\ requests[r2].error = "No speech found"
    /\ requests[r1].status = 500 /\ requests[r2].status = 500

\* A request that fails validation: no file, a file that does not declare an
\* audio type, or a file over the handler's ceiling.
FailsValidation(r) ==
  \/ requests[r].body.kind = "absent"
  \/ /\ requests[r].body.kind = "file"
     /\ \/ ~DeclaresAudio(requests[r].body.type)
        \/ requests[r].body.size > ceiling(requests[r].handler)

\* C13: every failure response of either handler is an envelope with success
\* false and a string error, with a 4xx status for a validation failure and a
\* 5xx status for an unexpected one.
C13_FailureEnvelope ==
  \A r \in Requests :
    (requests[r].pc = "done" /\ requests[r].success # "true")
      => /\ requests[r].success = "false"
         /\ requests[r].error # "absent"
         /\ IF FailsValidation(r)
            THEN requests[r].status \in 400..499
            ELSE requests[r].status \in 500..599

\* The session is stopped with a finalized artifact, no timer and no stream.
StoppedAndReleased ==
  /\ ~isRecording /\ ~isPaused
  /\ blobRef # <<>> /\ audioURL # 0
  /\ timers = {}
  /\ LiveStreams = {}

\* C14: stop invoked while the session is recording or paused eventually
\* leaves it stopped with a finalized artifact, the timer cancelled and the
\* capture device released, the stop callback being the step that gets there;
\* stop invoked while idle or already stopped changes no session field.
C14_StopFinalizes ==
  /\ (isRecording /\ mediaRecorderRef # 0 /\ recorders[mediaRecorderRef].stopQueued)
        ~> StoppedAndReleased
  /\ [][ (isRecording /\ ~isRecording') => StoppedAndReleased' ]_vars
  /\ [][ (StopClick /\ ~isRecording)
          => UNCHANGED << isRecording, isPaused, audioURL, duration, blobRef,
                          timers, recorders >> ]_vars

\* The state of the current recorder ("none" when there is none).
CurrentState ==
  IF mediaRecorderRef = 0 THEN "none" ELSE recorders[mediaRecorderRef].state

\* C15: pause takes effect only when the current recorder is recording, and
\* resume only when it is paused; invoked in any other state each leaves the
\* status flags, the elapsed seconds, the timer and the recorder unchanged.
C15_PauseResumeGuarded ==
  [][ /\ PauseClick
          => IF CurrentState = "recording"
             THEN isPaused' /\ recorders'[mediaRecorderRef].state = "paused"
             ELSE UNCHANGED << isRecording, isPaused, duration, timers, timerRef,
                               recorders >>
      /\ ResumeClick
          => IF CurrentState = "paused"
             THEN ~isPaused' /\ recorders'[mediaRecorderRef].state = "recording"
             ELSE UNCHANGED << isRecording, isPaused, duration, timers, timerRef,
                               recorders >> ]_vars

\* C15 witness: pause has taken effect and stop was pressed after it, so the
\* Resume button is enabled while the current recorder is no longer paused.
C15_Witness ==
  /\ isRecording /\ isPaused
  /\ CurrentState = "inactive"
  /\ timers = {}

\* The starts whose getUserMedia promise was rejected.
Denied == { k \in Recorders : recorders[k].state = "denied" }

\* C16: when start is invoked and microphone access is denied, the
\* recorder-unsupported flag is set and nothing else changes: the session does
\* not enter recording, the elapsed seconds and any artifact are unchanged, no
\* timer is started, and that start never records afterwards.
C16_DenialSetsFlag ==
  [][ /\ \A k \in Recorders :
           GumReject(k)
             => /\ ~recorderSupported'
                /\ UNCHANGED << isRecording, isPaused, duration, audioURL, blobRef,
                                timers, timerRef, mediaRecorderRef, streamRef,
                                chunksRef, transcription, transcriptionError >>
                /\ LiveStreams' = LiveStreams
      /\ Denied \subseteq Denied' ]_vars

\* C16 witness: a start was denied while the artifact of an earlier recording
\* was held, and the artifact is still there.
C16_Witness ==
  /\ Denied # {}
  /\ ~recorderSupported
  /\ ~isRecording
  /\ audioURL # 0 /\ blobRef # <<>>

\* C17: a file chosen by drag-and-drop or by the file picker becomes the
\* artifact and is sent to the relay only if its declared media type starts
\* with "audio/" and its size is at most the ceiling; otherwise no relay call
\* is issued and the current artifact is left unchanged.
C17_SelectionGated ==
  [][ \A f \in UserFiles :
        (FileDrop(f) \/ FilePick(f))
          => IF DeclaresAudio(f.type) /\ f.size <= 25 * 1024 * 1024
             THEN /\ Len(calls') = Len(calls) + 1
                  /\ calls'[Len(calls')].file = f
                  /\ audioURL' # audioURL
             ELSE UNCHANGED << calls, audioURL, blobRef >> ]_vars

\* C18: the session has at most one live artifact: whenever a blob is stored
\* for Transcribe/Save, the playback URL is the URL of a recording (the one made
\* from that blob), and every playback handle other than the current one has
\* been released.
C18_OneLiveArtifact ==
  /\ blobRef # <<>> => (audioURL # 0 /\ objectURLs[audioURL].of = "recording")
  /\ \A u \in 1..Len(objectURLs) : u # audioURL => objectURLs[u].revoked

\* The probe process has exited.
Exited == exitCode # -1

\* C19: the probe exits with code 0 if and only if the GET yields status 200;
\* for any other status and for a transport error it exits with code 1.
C19_ExitCode ==
  Exited => /\ exitCode \in {0, 1}
            /\ exitCode = 0 <=> statusCode = 200
            /\ statusCode # 0

\* C19 witness: the probe has exited on a 404.
C19_Witness == Exited /\ statusCode = 404 /\ exitCode = 1

\* C20: the probe always terminates: when the server accepts the connection
\* and sends nothing, the 2-second timeout fires and the probe exits with
\* code 1.
C20_ProbeTerminates ==
  /\ <>Exited
  /\ [][ (reqState = "connected" /\ ~timeoutEmitted /\ timeoutEmitted')
          => (Exited' /\ exitCode' = 1) ]_vars

\* The last '.' of a name and what follows it.
Extension(name) ==
  LET dots == { i \in 1..Len(name) : name[i] = "." }
  IN IF dots = {} THEN <<>>
     ELSE SubSeq(name, CHOOSE i \in dots : \A j \in dots : j <= i, Len(name))

\* C21: every file persisted by the storage handler is named by a timestamp of
\* the clock with ':' and '.' replaced by '-', followed by the extension of the
\* uploaded file: the stored extension equals the one the client put on the
\* uploaded file name.
C21_StoredName ==
  \A w \in written :
    /\ \E ms \in 0..now :
         SubSeq(w.path, 1, Len(toISOString(ms))) =
           <<"T", "0", "0", "-", "0", "0", "-", "0", "0", "-", "0", "0", ToString(ms), "Z">>
    /\ Extension(w.path) = requests[w.by].body.ext

\* The response of request r reports a failure with a server error status.
ServerFailure(req) ==
  /\ req.pc = "done"
  /\ req.status \in 500..599
  /\ req.error # "absent"
  /\ req.success # "true"

C23_OneTimerWhileActive ==
  /\ [](Cardinality(timers) = IF isRecording /\ ~isPaused THEN 1 ELSE 0)
  /\ [][ (duration' # duration /\ duration' # 0)
          => (duration' = duration + 1 /\ isRecording /\ ~isPaused) ]_vars

\* The error string the claim prescribes for an upstream response.
PrescribedError(f) ==
  IF f.json.decodes /\ f.json.detail # "absent" /\ f.json.detail # ""
  THEN f.json.detail
  ELSE IF f.status = 404 THEN "Python API error: 404"
  ELSE "Python API error: 500"

\* C24: when the transcription service answers with a non-2xx status, the
\* error string relayed by the transcription handler is the detail field of
\* the body when the body is JSON with a non-empty detail, and
\* "Python API error: <status>" when it has no detail or is not decodable.
C24_RelayedDetail ==
  [][ \A r \in Requests :
        (requests[r].pc = "fetch" /\ requests'[r].pc # "fetch")
          => \A f \in FetchResults :
               (f.kind = "response" /\ ~Is2xx(f.status) /\ TranscribeFetched(r, f))
                 => requests'[r].error = PrescribedError(f) ]_vars

\* C25: the transcribing flag is true if and only if at least one
\* upload/transcribe call is outstanding.
C25_FlagIffInFlight == isTranscribing <=> InFlight # {}

\* C26: a response to a call that was issued before a clear, or before a new
\* recording started, sets neither the Transcription Result nor the error
\* message.
C26_StaleResponseIgnored ==
  [][ \A c \in InFlight :
        (c \notin InFlight' /\ calls[c].superseded)
          => /\ transcription' = transcription
             /\ transcriptionError' = transcriptionError ]_vars

\* C27: two distinct accepted requests to the storage handler never write to
\* the same file path.
C27_UniquePaths ==
  \A w1, w2 \in written : w1.by # w2.by => w1.path # w2.path

====
